---- MODULE Spec2Model ----
(***************************************************************************)
(* Model of the solar-system visualisation: the Simulation class           *)
(* (src/unnamed/part_001) driven by the page script (src/main.js).         *)
(*                                                                         *)
(* Number representation.  The program computes in IEEE doubles; the model *)
(* computes in exact or fixed-point arithmetic:                            *)
(*   - the clock `time` is counted in units of TimeUnit   = 0.01,          *)
(*   - a planet angle is  quarter * (pi/2) + k * 0.0005 rad,               *)
(*   - mesh/label coordinates are integers in units of 1/PosScale,         *)
(*   - the camera distance is an exact rational 2^a * 3^b * 5^c, written   *)
(*     <<a, b, c>>: every constant of the zoom code (0.8, 1.25, 10, 300,   *)
(*     100) has this form, so the products and the clamps are exact.       *)
(* Where a claim compares two distances the program computes, the         *)
(* distance is also followed as an IEEE 754 binary64 value (dist64,        *)
(* SpecDouble), with the rounding of every product.                        *)
(***************************************************************************)
EXTENDS Integers, Sequences, FiniteSets, TLC

(***************************************************************************)
(* Bounds of the exploration.                                              *)
(***************************************************************************)
\* animation frames explored
MaxTicks == 3
\* zoom button clicks explored
MaxClicks == 12
\* number of outcomes of the Math.random() initial angles explored
SeedCount == 2
\* longest run of consecutive zoom calls considered
ZoomRun == 16

(***************************************************************************)
(* Naturals of arbitrary size: little-endian sequences of                   *)
(* digits (base 10000) without leading zeros.  Needed because the exact    *)
(* camera distances leave the range of machine integers.                   *)
(***************************************************************************)
RECURSIVE BigMulCarry(_, _, _)
BigMulCarry(n, k, carry) ==
    IF n = << >>
    THEN IF carry = 0 THEN << >> ELSE << carry >>
    ELSE LET v == Head(n) * k + carry
         IN  << v % 10000 >> \o BigMulCarry(Tail(n), k, v \div 10000)

BigMul(n, k) == BigMulCarry(n, k, 0)

RECURSIVE BigPow(_, _, _)
BigPow(n, base, k) == IF k <= 0 THEN n ELSE BigPow(BigMul(n, base), base, k - 1)

RECURSIVE BigLeqFrom(_, _, _)
BigLeqFrom(m, n, i) ==
    IF i = 0 THEN TRUE
    ELSE IF m[i] # n[i] THEN m[i] < n[i]
    ELSE BigLeqFrom(m, n, i - 1)

BigLeq(m, n) ==
    IF Len(m) # Len(n) THEN Len(m) < Len(n) ELSE BigLeqFrom(m, n, Len(m))

(***************************************************************************)
(* Exact rationals 2^a * 3^b * 5^c as exponent triples.                    *)
(***************************************************************************)
Pos(x) == IF x > 0 THEN x ELSE 0

RNum(r) == BigPow(BigPow(BigPow(<< 1 >>, 2, Pos(r[1])), 3, Pos(r[2])), 5, Pos(r[3]))
RDen(r) == BigPow(BigPow(BigPow(<< 1 >>, 2, Pos(-r[1])), 3, Pos(-r[2])), 5, Pos(-r[3]))

RMul(r, s) == << r[1] + s[1], r[2] + s[2], r[3] + s[3] >>
RDiv(r, s) == << r[1] - s[1], r[2] - s[2], r[3] - s[3] >>
RLeq(r, s) == BigLeq(RNum(RDiv(r, s)), RDen(RDiv(r, s)))
RMax(r, s) == IF RLeq(r, s) THEN s ELSE r
RMin(r, s) == IF RLeq(r, s) THEN r ELSE s

(***************************************************************************)
(* IEEE 754 binary64, for the numbers of the zoom code: a positive normal  *)
(* double is [m |-> mantissa, e |-> exponent] with value m * 2^e and       *)
(* 2^52 <= m < 2^53, the mantissa a natural of arbitrary size as above.    *)
(* Products are formed exactly and rounded to nearest, ties to even, as    *)
(* the JavaScript * operator does.                                         *)
(***************************************************************************)
RECURSIVE BigAddCarry(_, _, _)
BigAddCarry(m, n, carry) ==
    IF m = << >> /\ n = << >>
    THEN IF carry = 0 THEN << >> ELSE << carry >>
    ELSE LET a == IF m = << >> THEN 0 ELSE Head(m)
             b == IF n = << >> THEN 0 ELSE Head(n)
             v == a + b + carry
         IN  << v % 10000 >>
                 \o BigAddCarry(IF m = << >> THEN m ELSE Tail(m),
                                IF n = << >> THEN n ELSE Tail(n),
                                v \div 10000)

BigAdd(m, n) == BigAddCarry(m, n, 0)

\* n without its leading zero digits
RECURSIVE BigTrim(_)
BigTrim(n) ==
    IF n # << >> /\ n[Len(n)] = 0 THEN BigTrim(SubSeq(n, 1, Len(n) - 1)) ELSE n

\* digits 1 .. i of the quotient of n by the small number k, and the
\* remainder, with rem carried in from the digits above i
RECURSIVE BigDivFrom(_, _, _, _)
BigDivFrom(n, k, i, rem) ==
    LET cur == rem * 10000 + n[i]
    IN  IF i = 1
        THEN [q |-> << cur \div k >>, r |-> cur % k]
        ELSE LET rest == BigDivFrom(n, k, i - 1, cur % k)
             IN  [q |-> Append(rest.q, cur \div k), r |-> rest.r]

BigDivSmall(n, k) ==
    IF n = << >> THEN [q |-> << >>, r |-> 0]
    ELSE LET d == BigDivFrom(n, k, Len(n), 0)
         IN  [q |-> BigTrim(d.q), r |-> d.r]

\* n times 2^s, thirteen bits (8192 = 2^13) at a time
RECURSIVE BigShiftLeft(_, _)
BigShiftLeft(n, s) ==
    IF s = 0 THEN n
    ELSE IF s >= 13 THEN BigShiftLeft(BigMul(n, 8192), s - 13)
    ELSE BigShiftLeft(BigMul(n, 2), s - 1)

\* n divided by 2^s, and whether the division is exact
RECURSIVE BigShiftRight(_, _)
BigShiftRight(n, s) ==
    IF s = 0 THEN [q |-> n, exact |-> TRUE]
    ELSE LET h == BigDivSmall(n, IF s >= 13 THEN 8192 ELSE 2)
             rest == BigShiftRight(h.q, IF s >= 13 THEN s - 13 ELSE s - 1)
         IN  [q |-> rest.q, exact |-> rest.exact /\ h.r = 0]

BigTwo52 == BigShiftLeft(<< 1 >>, 52)
BigTwo53 == BigShiftLeft(<< 1 >>, 53)

\* p / 2^s rounded to the nearest integer, ties to the even one:
\* floor((2p + 2^s) / 2^(s+1)), less one when that division is exact and
\* the quotient is odd
roundToInteger(p, s) ==
    LET d == BigShiftRight(BigAdd(BigMul(p, 2), BigShiftLeft(<< 1 >>, s)), s + 1)
    IN  IF d.exact /\ d.q[1] % 2 = 1 THEN [d.q EXCEPT ![1] = @ - 1] ELSE d.q

\* the double nearest to p * 2^e, for 2^(52+s) <= p < 2^(54+s)
roundToDouble(p, e, s) ==
    LET t == IF BigLeq(BigShiftLeft(BigTwo53, s), p) THEN s + 1 ELSE s
        m == roundToInteger(p, t)
    IN  IF m = BigTwo53 THEN [m |-> BigTwo52, e |-> e + t + 1]
                        ELSE [m |-> m, e |-> e + t]

\* x * 0.8: the double 0.8 is 3602879701896397 * 2^-52 and
\* 3602879701896397 = (2^54 + 1) / 5, so the exact product is
\* ((m * 2^54 + m) / 5) * 2^(e - 52)
doubleTimesZoomIn(x) ==
    roundToDouble(BigDivSmall(BigAdd(BigShiftLeft(x.m, 54), x.m), 5).q, x.e - 52, 51)

\* x * 1.25: the double 1.25 is 5 * 2^-2, the exact product (5 m) * 2^(e - 2)
doubleTimesZoomOut(x) == roundToDouble(BigMul(x.m, 5), x.e - 2, 2)

\* x <= y for positive normal doubles
doubleLeq(x, y) == IF x.e # y.e THEN x.e < y.e ELSE BigLeq(x.m, y.m)

\* the double m * 2^e, for a natural m below 2^53
RECURSIVE doubleOf(_, _)
doubleOf(m, e) ==
    IF BigLeq(BigTwo52, m) THEN [m |-> m, e |-> e] ELSE doubleOf(BigMul(m, 2), e - 1)

\* controls.minDistance = 10, controls.maxDistance = 300 and the initial
\* |camera.position - controls.target| = 100 as doubles
minDistance64 == doubleOf(<< 10 >>, 0)
maxDistance64 == doubleOf(<< 300 >>, 0)
InitialDistance64 == doubleOf(<< 100 >>, 0)

(***************************************************************************)
(* Configuration set by Simulation.init and the constructor.               *)
(***************************************************************************)
\* controls.minDistance = 10, controls.maxDistance = 300
minDistance == << 1, 0, 1 >>
maxDistance == << 2, 1, 2 >>
\* the factors of zoomIn (0.8 = 4/5) and zoomOut (1.25 = 5/4)
ZoomInFactor == << 2, 0, -1 >>
ZoomOutFactor == << -2, 0, 1 >>
\* camera.position.set(0, 60, 80) with controls.target = (0,0,0): |offset| = 100
InitialDistance == << 2, 0, 2 >>

Origin == << 0, 0, 0 >>

\* The bodies table: r in distance units, size in tenths, speed in tenths,
\* e in thousandths.
bodies ==
    << [name |-> "Sun",     r |-> 0,  size |-> 50, speed |-> 0,  e |-> 0],
       [name |-> "Mercury", r |-> 10, size |-> 4,  speed |-> 40, e |-> 206],
       [name |-> "Venus",   r |-> 15, size |-> 9,  speed |-> 30, e |-> 7],
       [name |-> "Earth",   r |-> 20, size |-> 10, speed |-> 24, e |-> 17],
       [name |-> "Mars",    r |-> 25, size |-> 5,  speed |-> 20, e |-> 93],
       [name |-> "Jupiter", r |-> 35, size |-> 25, speed |-> 13, e |-> 49],
       [name |-> "Saturn",  r |-> 45, size |-> 21, speed |-> 9,  e |-> 56],
       [name |-> "Uranus",  r |-> 55, size |-> 15, speed |-> 6,  e |-> 46],
       [name |-> "Neptune", r |-> 65, size |-> 14, speed |-> 5,  e |-> 10] >>

(***************************************************************************)
(* Fixed-point real functions.  Values are scaled by 10000.                *)
(***************************************************************************)
RECURSIVE SqrtSearch(_, _, _)
SqrtSearch(n, lo, hi) ==
    IF lo >= hi THEN lo
    ELSE LET mid == (lo + hi + 1) \div 2
         IN  IF mid * mid <= n THEN SqrtSearch(n, mid, hi)
                               ELSE SqrtSearch(n, lo, mid - 1)

\* Math.sqrt(1 - e * e), e in thousandths, result scaled by 10000
SqrtOneMinusSq(e) == SqrtSearch((1000000 - e * e) * 100, 0, 10000)

\* cos and sin of x (in 1/10000 rad) for 0 <= x below a quarter turn, by
\* their Taylor polynomials
CosSmall(x) ==
    LET x2 == (x * x) \div 10000
        x4 == (x2 * x2) \div 10000
    IN  10000 - (x2 \div 2) + (x4 \div 24)

SinSmall(x) ==
    LET x2 == (x * x) \div 10000
        x3 == (x2 * x) \div 10000
        x5 == (x3 * x2) \div 10000
    IN  x - (x3 \div 6) + (x5 \div 120)

\* An angle is [quarter |-> q, k |-> k]: q quarter turns plus k units of
\* 0.0005 rad (k * 5 units of 1/10000 rad).
MathCos(angle) ==
    LET x == angle.k * 5
        q == angle.quarter % 4
    IN  CASE q = 0 -> CosSmall(x)
          [] q = 1 -> 0 - SinSmall(x)
          [] q = 2 -> 0 - CosSmall(x)
          [] q = 3 -> SinSmall(x)

MathSin(angle) ==
    LET x == angle.k * 5
        q == angle.quarter % 4
    IN  CASE q = 0 -> SinSmall(x)
          [] q = 1 -> CosSmall(x)
          [] q = 2 -> 0 - SinSmall(x)
          [] q = 3 -> 0 - CosSmall(x)

(***************************************************************************)
(* State.                                                                  *)
(*   Simulation:  time, isPaused, planets (table row, angle, mesh          *)
(*                position, mesh rotation.y, label position per body),     *)
(*                sunLight position,                                       *)
(*                the Sun material's time uniform, the camera distance     *)
(*                |camera.position - controls.target| and the direction of *)
(*                that offset (cameraDir, a unit vector scaled by 10000),  *)
(*                controls.target, the number of renderer.render calls.    *)
(*                drawn: the planets (meshes and labels) as the last       *)
(*                renderer.render call saw them, << >> before the first.   *)
(*                currentLang and the text drawn on each label           *)
(*                (labelMap), the size given to the renderer and the     *)
(*                camera aspect (viewport, << width, height >>).         *)
(*   main.js:     isPaused of the page (uiPaused), whether the timer has   *)
(*                installed the animate wrapper (hooked), currentLang of   *)
(*                the page (uiLang), the text of the pause button          *)
(*                (btnStopText).                                           *)
(*   History:     initialAngle (the angles drawn at construction),         *)
(*                clicks (zoom button clicks), zoomIns / zoomOuts (calls   *)
(*                of Simulation.zoomIn / zoomOut), animateCalls (calls of  *)
(*                Simulation.animate), frames (display refreshes),         *)
(*                running (ticks executed while not paused), stopOdd (the  *)
(*                number of clicks on the pause button is odd), uiClicked  *)
(*                (the pause or the language button has been clicked).     *)
(*   Binary64:    dist64, the camera distance as the double the zoom code  *)
(*                computes; it is followed by the click actions of         *)
(*                SpecDouble only, the other actions leave it alone.       *)
(***************************************************************************)
VARIABLES time, isPaused, planets, sunLight, timeUniform, cameraDist,
          renderCount, uiPaused, hooked, initialAngle, clicks, zoomIns, zoomOuts,
          cameraDir, target, drawn, animateCalls, frames,
          currentLang, labelMap, viewport, uiLang, btnStopText,
          running, stopOdd, uiClicked, dist64

vars == << time, isPaused, planets, sunLight, timeUniform, cameraDist,
           renderCount, uiPaused, hooked, initialAngle, clicks, zoomIns, zoomOuts,
           cameraDir, target, drawn, animateCalls, frames,
           currentLang, labelMap, viewport, uiLang, btnStopText,
           running, stopOdd, uiClicked, dist64 >>

\* the planets array is indexed 0 .. planets.length - 1; planets[i].data is
\* row i of the table; this.count = bodies.length, one entry pushed per row
Index == DOMAIN planets
Data(i) == planets[i].data
count == Cardinality(Index)

simVars == << time, isPaused, planets, sunLight, timeUniform, renderCount,
             drawn, animateCalls, frames, running >>
zoomVars == << cameraDist, clicks, zoomIns, zoomOuts >>
cameraVars == << cameraDir, target >>
langVars == << currentLang, labelMap, uiLang >>
stopVars == << btnStopText, stopOdd, uiClicked >>

\* Vector3.normalize(): v / |v|, components scaled by 10000
Normalize(v) ==
    LET len == SqrtSearch(v[1] * v[1] + v[2] * v[2] + v[3] * v[3], 0, 20000)
    IN  << (v[1] * 10000) \div len, (v[2] * 10000) \div len, (v[3] * 10000) \div len >>

\* this.translations of the constructor (the Chinese names are written in
\* pinyin)
translations ==
    [en |-> [Sun |-> "Sun", Mercury |-> "Mercury", Venus |-> "Venus",
             Earth |-> "Earth", Mars |-> "Mars", Jupiter |-> "Jupiter",
             Saturn |-> "Saturn", Uranus |-> "Uranus", Neptune |-> "Neptune"],
     zh |-> [Sun |-> "Taiyang", Mercury |-> "Shuixing", Venus |-> "Jinxing",
             Earth |-> "Diqiu", Mars |-> "Huoxing", Jupiter |-> "Muxing",
             Saturn |-> "Tuxing", Uranus |-> "Tianwangxing",
             Neptune |-> "Haiwangxing"]]

\* uiTranslations of main.js, the two entries the pause button uses
uiTranslations ==
    [en |-> [pause |-> "Pause", resume |-> "Resume"],
     zh |-> [pause |-> "Zanting", resume |-> "Jixu"]]

\* the text of the pause button as index.html gives it: no handler has
\* written it yet
HtmlText == "index.html"

\* window.innerWidth and window.innerHeight: the size of the window when
\* the page loads and the sizes a resize event can bring
InitialSize == << 800, 600 >>
Sizes == { InitialSize, << 1280, 720 >> }

\* const angle = Math.random() * Math.PI * 2, one outcome per seed
RandomAngle(seed, i) == [quarter |-> (seed + i) % 4, k |-> seed * i * 100]

\* The table rows init accepts: the table of the source and tables with an
\* eccentricity outside [0,1) (1.0, -0.2) or a repeated name.  (An
\* eccentricity above 1 makes Math.sqrt return NaN; it is not enumerated.)
Tables ==
    { bodies,
      [bodies EXCEPT ![2].e = 1000],
      [bodies EXCEPT ![3].e = -200],
      [bodies EXCEPT ![3].name = "Mercury"] }

\* init with validation: a ConfigurationError leaves this.planets = []
initPlanetsValidated(tbl, seed) ==
    IF /\ \A i \in 1 .. Len(tbl) : tbl[i].e >= 0 /\ tbl[i].e < 1000
       /\ \A i, j \in 1 .. Len(tbl) : tbl[i].name = tbl[j].name => i = j
    THEN [i \in 0 .. (Len(tbl) - 1) |->
             [data |-> tbl[i + 1],
              angle |-> RandomAngle(seed, i),
              position |-> Origin,
              rotationY |-> 0,
              label |-> Origin]]
    ELSE [i \in {} |-> Origin]

\* the loop of init: one planets entry per row of the table, in table order
initPlanets(tbl, seed) ==
    [i \in 0 .. (Len(tbl) - 1) |->
        [data |-> tbl[i + 1],
         angle |-> RandomAngle(seed, i),
         position |-> Origin,
         rotationY |-> 0,
         label |-> Origin]]

\* The state after `new Simulation(canvas)` and the top level of main.js,
\* with init run on the table tbl.
InitWith(tbl) ==
    /\ time = 0
    /\ isPaused = FALSE
    /\ \E seed \in 0 .. (SeedCount - 1) :
          /\ initialAngle = [i \in 0 .. (Len(tbl) - 1) |-> RandomAngle(seed, i)]
          /\ planets = initPlanets(tbl, seed)
    /\ sunLight = Origin
    /\ timeUniform = 0
    /\ cameraDist = InitialDistance
    /\ cameraDir = Normalize(<< 0, 60, 80 >>)
    /\ target = Origin
    /\ renderCount = 0
    /\ drawn = << >>
    /\ animateCalls = 0
    /\ frames = 0
    /\ uiPaused = FALSE
    /\ hooked = FALSE
    /\ currentLang = "en"
    /\ labelMap = [i \in 0 .. (Len(tbl) - 1) |-> tbl[i + 1].name]
    /\ viewport = InitialSize
    /\ uiLang = "en"
    /\ btnStopText = HtmlText
    /\ running = 0
    /\ stopOdd = FALSE
    /\ uiClicked = FALSE
    /\ dist64 = InitialDistance64
    /\ clicks = 0
    /\ zoomIns = 0
    /\ zoomOuts = 0

\* The program: init runs on the table of the source.
Init == InitWith(bodies)

\* init seen as a function of its table.
InitTable == \E tbl \in Tables : InitWith(tbl)

(***************************************************************************)
(* Simulation.zoomIn / Simulation.zoomOut: the new length of the offset    *)
(* camera.position - controls.target.                                      *)
(***************************************************************************)
\* zoomIn without the lower clamp
zoomInDistUnclamped(currentDist) == RMul(currentDist, ZoomInFactor)

\* zoomIn with Math.min in place of Math.max
zoomInDistMin(currentDist) == RMin(minDistance, RMul(currentDist, ZoomInFactor))

zoomInDist(currentDist) == RMax(minDistance, RMul(currentDist, ZoomInFactor))

\* zoomOut without the upper clamp
zoomOutDistUnclamped(currentDist) == RMul(currentDist, ZoomOutFactor)

\* zoomOut with Math.max in place of Math.min
zoomOutDistMax(currentDist) == RMax(maxDistance, RMul(currentDist, ZoomOutFactor))

zoomOutDist(currentDist) == RMin(maxDistance, RMul(currentDist, ZoomOutFactor))

\* a zoom that puts the camera back on the z axis: position.set(0, 0, newDist)
offsetNormalizeAxis(dir) == << 0, 0, 10000 >>

\* offset.normalize(): the direction of camera.position - controls.target,
\* which multiplyScalar(newDist) and copy(target).add(offset) keep
offsetNormalize(dir) == Normalize(dir)

zoomIn ==
    /\ cameraDist' = zoomInDist(cameraDist)
    /\ cameraDir' = offsetNormalize(cameraDir)
    /\ zoomIns' = zoomIns + 1
    /\ zoomOuts' = zoomOuts

zoomOut ==
    /\ cameraDist' = zoomOutDist(cameraDist)
    /\ cameraDir' = offsetNormalize(cameraDir)
    /\ zoomOuts' = zoomOuts + 1
    /\ zoomIns' = zoomIns

\* a click handler that reaches simulation.zoomIn() twice
BtnZoomInClickTwice ==
    /\ clicks < MaxClicks
    /\ clicks' = clicks + 1
    /\ cameraDist' = zoomInDist(zoomInDist(cameraDist))
    /\ cameraDir' = offsetNormalize(offsetNormalize(cameraDir))
    /\ zoomIns' = zoomIns + 2
    /\ zoomOuts' = zoomOuts
    /\ UNCHANGED << simVars, uiPaused, hooked, initialAngle, dist64, target,
                    langVars, stopVars, viewport >>

\* btnZoomIn click handler: simulation.zoomIn() (the button colour is cosmetic)
BtnZoomInClick ==
    /\ clicks < MaxClicks
    /\ clicks' = clicks + 1
    /\ zoomIn
    /\ UNCHANGED << simVars, uiPaused, hooked, initialAngle, dist64, target,
                    langVars, stopVars, viewport >>

\* zoomIn in doubles: Math.max(this.controls.minDistance, currentDist * 0.8)
zoomInDist64(currentDist) ==
    LET newDist == doubleTimesZoomIn(currentDist)
    IN  IF doubleLeq(minDistance64, newDist) THEN newDist ELSE minDistance64

\* zoomOut in doubles with Math.max in place of Math.min
zoomOutDist64Max(currentDist) ==
    LET newDist == doubleTimesZoomOut(currentDist)
    IN  IF doubleLeq(newDist, maxDistance64) THEN maxDistance64 ELSE newDist

\* zoomOut in doubles: Math.min(this.controls.maxDistance, currentDist * 1.25)
zoomOutDist64(currentDist) ==
    LET newDist == doubleTimesZoomOut(currentDist)
    IN  IF doubleLeq(newDist, maxDistance64) THEN newDist ELSE maxDistance64

\* btnZoomOut click handler: simulation.zoomOut()
BtnZoomOutClick ==
    /\ clicks < MaxClicks
    /\ clicks' = clicks + 1
    /\ zoomOut
    /\ UNCHANGED << simVars, uiPaused, hooked, initialAngle, dist64, target,
                    langVars, stopVars, viewport >>

\* isPaused ? t.resume : t.pause with t = uiTranslations[lang]
stopButtonText(lang, paused) ==
    IF paused THEN uiTranslations[lang].resume ELSE uiTranslations[lang].pause

\* isPaused = !isPaused
btnStopToggle(paused) == ~paused

\* The zoom-in click with the distance followed in binary64 as well: the
\* camera is placed at newDist and the next call measures that distance
\* (Vector3.length, normalize and multiplyScalar of three.js taken as exact)
BtnZoomInClick64 ==
    /\ clicks < MaxClicks
    /\ clicks' = clicks + 1
    /\ zoomIn
    /\ dist64' = zoomInDist64(dist64)
    /\ UNCHANGED << simVars, uiPaused, hooked, initialAngle, target,
                    langVars, stopVars, viewport >>

\* The zoom-out click with the distance followed in binary64 as well
BtnZoomOutClick64 ==
    /\ clicks < MaxClicks
    /\ clicks' = clicks + 1
    /\ zoomOut
    /\ dist64' = zoomOutDist64(dist64)
    /\ UNCHANGED << simVars, uiPaused, hooked, initialAngle, target,
                    langVars, stopVars, viewport >>

\* btnStop click handler: isPaused = !isPaused (page variable), then the
\* button text from the new flag (the button colour is cosmetic)
BtnStopClick ==
    /\ uiPaused' = btnStopToggle(uiPaused)
    /\ btnStopText' = stopButtonText(uiLang, uiPaused')
    /\ stopOdd' = ~stopOdd
    /\ uiClicked' = TRUE
    /\ UNCHANGED << simVars, zoomVars, cameraVars, hooked, initialAngle, dist64,
                    langVars, viewport >>

\* this.translations[lang][p.data.name] || p.data.name
translatedName(lang, name) ==
    IF name \in DOMAIN translations[lang] THEN translations[lang][name] ELSE name

\* a setLanguage that writes the translated name into the table row
setLanguageRenaming(lang, ps) ==
    [i \in DOMAIN ps |->
        [ps[i] EXCEPT !.data.name = translatedName(lang, ps[i].data.name)]]

\* what setLanguage does to this.planets: the loop replaces the texture of
\* each label (labelMap) and leaves the entries themselves alone
setLanguagePlanets(lang, ps) == ps

\* Simulation.setLanguage(lang)
setLanguage(lang) ==
    IF lang # "en" /\ lang # "zh"
    THEN UNCHANGED << currentLang, labelMap, planets >>
    ELSE /\ currentLang' = lang
         /\ labelMap' = [i \in Index |-> translatedName(lang, Data(i).name)]
         /\ planets' = setLanguagePlanets(lang, planets)

\* an updateUILanguage that always writes the 'pause' string on the pause
\* button
updateUILanguageStopPause(lang, paused) == uiTranslations[lang].pause

\* updateUILanguage(): btnStop.textContent = isPaused ? t.resume : t.pause
\* (the other texts it writes are not part of the state)
updateUILanguageStop(lang, paused) == stopButtonText(lang, paused)

\* btnLang click handler: the page language flips, the texts are rewritten
\* and the simulation is given the new language
BtnLangClick ==
    /\ uiLang' = IF uiLang = "en" THEN "zh" ELSE "en"
    /\ btnStopText' = updateUILanguageStop(uiLang', uiPaused)
    /\ setLanguage(uiLang')
    /\ uiClicked' = TRUE
    /\ UNCHANGED << time, isPaused, sunLight, timeUniform, renderCount, drawn,
                    animateCalls, frames, running, zoomVars, cameraVars,
                    uiPaused, hooked, initialAngle, dist64, viewport, stopOdd >>

\* window resize handler: simulation.resize() sets camera.aspect and the
\* renderer size from the new window size
Resize ==
    /\ \E size \in Sizes : viewport' = size
    /\ UNCHANGED << simVars, zoomVars, cameraVars, uiPaused, hooked,
                    initialAngle, dist64, langVars, stopVars >>

\* The 100 ms timer of main.js: replaces simulation.animate by the wrapper
\* and registers it as the animation loop.
InstallHook ==
    /\ ~hooked
    /\ hooked' = TRUE
    /\ UNCHANGED << simVars, zoomVars, cameraVars, uiPaused, initialAngle, dist64,
                    langVars, stopVars, viewport >>

(***************************************************************************)
(* Simulation.animate.                                                     *)
(***************************************************************************)
\* a controls.update() that dollies the camera on every frame
controlsUpdateDolly(d) == RMax(minDistance, RMin(maxDistance, RMul(d, ZoomInFactor)))

\* controls.update() without pointer input: OrbitControls keeps the camera
\* on its ray and clamps the distance to [minDistance, maxDistance]
controlsUpdate(d) == RMax(minDistance, RMin(maxDistance, d))

\* a clock that ignores the pause flag
animateTimeAlways(t, paused) == t + 1

\* if (!this.isPaused) this.time += 0.01
animateTime(t, paused) == IF ~paused THEN t + 1 ELSE t

\* an angle update that ignores the pause flag
animateAngleAlways(i, angle, paused) ==
    IF i # 0 THEN [angle EXCEPT !.k = @ + Data(i).speed] ELSE angle

\* an angle update at the clock's rate, speed * 0.01
animateAngleClockRate(i, angle, paused) ==
    IF i # 0 /\ ~paused
    THEN [angle EXCEPT !.k = @ + 2 * Data(i).speed]
    ELSE angle

\* an angle update that the pause flag stops only for the outer bodies
animateAngleInnerUnguarded(i, angle, paused) ==
    IF i # 0 /\ (~paused \/ i <= 4)
    THEN [angle EXCEPT !.k = @ + Data(i).speed]
    ELSE angle

\* an angle computed from the number of frames drawn so far instead of
\* being accumulated: it catches up after a pause
animateAngleFromFrames(i, angle, paused) ==
    IF i # 0 /\ ~paused
    THEN [angle EXCEPT !.k = initialAngle[i].k + (renderCount + 1) * Data(i).speed]
    ELSE angle

\* if (!this.isPaused) p.angle += p.data.speed * 0.005
animateAngle(i, angle, paused) ==
    IF i # 0 /\ ~paused
    THEN [angle EXCEPT !.k = @ + Data(i).speed]
    ELSE angle

\* a spin that ignores the pause flag
animateRotationAlways(i, rot, paused) == IF i # 0 THEN rot + 1 ELSE rot

\* if (!this.isPaused) p.mesh.rotation.y += 0.01
animateRotation(i, rot, paused) == IF i # 0 /\ ~paused THEN rot + 1 ELSE rot

\* the ellipse with the focus offset added instead of subtracted
orbitPositionFocusAdded(d, angle) ==
    LET a == d.r
        e == d.e
        c == a * e * 10
        x == MathCos(angle) * a + c
        z == a * ((MathSin(angle) * SqrtOneMinusSq(e)) \div 10000)
    IN  << x, 0, z >>

\* x = cos(angle) * a - c, z = sin(angle) * b with b = a * sqrt(1 - e*e),
\* c = a * e; coordinates in units of 1/10000 (sin * b is computed as
\* a * (sin * sqrt(1 - e*e)) to stay within machine integers)
orbitPosition(d, angle) ==
    LET a == d.r
        e == d.e
        c == a * e * 10
        x == MathCos(angle) * a - c
        z == a * ((MathSin(angle) * SqrtOneMinusSq(e)) \div 10000)
    IN  << x, 0, z >>

\* mesh position shared with the label position (label.position =
\* mesh.position), so that the label's y offset lands in the mesh position
meshPositionAliased(i, angle) ==
    LET pos == IF i = 0 THEN << 0, 0, 0 >> ELSE orbitPosition(Data(i), angle)
    IN  << pos[1], pos[2] + Data(i).size * 1000 + 20000, pos[3] >>

\* p.mesh.position.set(...): the Sun at the centre, a planet on its ellipse
meshPosition(i, angle) ==
    IF i = 0 THEN << 0, 0, 0 >> ELSE orbitPosition(Data(i), angle)

\* a label offset that leaves out the body's size
labelPositionNoSize(i, pos) == << pos[1], pos[2] + 20000, pos[3] >>

\* p.label.position.copy(p.mesh.position); p.label.position.y += size + 2.0
labelPosition(i, pos) ==
    << pos[1], pos[2] + Data(i).size * 1000 + 20000, pos[3] >>

\* a loop body without label.position.copy: the offset is added to the
\* label's previous y on every tick
animateBodyLabelDrift(i, p, paused) ==
    LET angle == animateAngle(i, p.angle, paused)
        pos == meshPosition(i, angle)
    IN  [data |-> p.data,
         angle |-> angle,
         position |-> pos,
         rotationY |-> animateRotation(i, p.rotationY, paused),
         label |-> << pos[1], p.label[2] + p.data.size * 1000 + 20000, pos[3] >>]

\* one iteration of the loop of animate, for body i with entry p
animateBody(i, p, paused) ==
    LET angle == animateAngle(i, p.angle, paused)
        pos == meshPosition(i, angle)
    IN  [data |-> p.data,
         angle |-> angle,
         position |-> pos,
         rotationY |-> animateRotation(i, p.rotationY, paused),
         label |-> labelPosition(i, pos)]

\* the for loop of animate over this.planets
animatePlanets(ps, paused) == [i \in DOMAIN ps |-> animateBody(i, ps[i], paused)]

\* a render call placed before the loop: it sees the scene as it was
renderSceneEarly(before, after) == before

\* this.renderer.render(this.scene, this.camera), the last statement: the
\* scene it draws is the one the loop has just updated
renderScene(before, after) == after

\* animate() run with this.isPaused = paused
animate(paused) ==
    /\ animateCalls' = animateCalls + 1
    /\ cameraDist' = controlsUpdate(cameraDist)
    /\ UNCHANGED cameraVars
    /\ time' = animateTime(time, paused)
    /\ planets' = animatePlanets(planets, paused)
    /\ timeUniform' = animateTime(time, paused)
    /\ renderCount' = renderCount + 1
    /\ running' = IF paused THEN running ELSE running + 1
    /\ drawn' = renderScene(planets, planets')

\* updateInteraction(state): this.isPaused = state.isStopped and the sun
\* light is put at the centre
updateInteractionLight(light) == << 0, 0, 0 >>

updateInteraction(isStopped) ==
    /\ isPaused' = isStopped
    /\ sunLight' = updateInteractionLight(sunLight)

\* A display refresh before the wrapper is installed: the loop registered
\* by init (line 571) runs animate directly.
FrameOriginal ==
    /\ ~hooked
    /\ renderCount < MaxTicks
    /\ frames' = frames + 1
    /\ animate(isPaused)
    /\ UNCHANGED << isPaused, sunLight, uiPaused, hooked, initialAngle, dist64,
                    clicks, zoomIns, zoomOuts, langVars, stopVars, viewport >>

\* A display refresh on which both the loop registered by init and the
\* wrapper run (setAnimationLoop adding a loop instead of replacing it)
FrameWrappedBoth ==
    /\ hooked
    /\ renderCount < MaxTicks
    /\ frames' = frames + 1
    /\ updateInteraction(uiPaused)
    /\ animateCalls' = animateCalls + 2
    /\ cameraDist' = controlsUpdate(controlsUpdate(cameraDist))
    /\ UNCHANGED cameraVars
    /\ time' = animateTime(animateTime(time, isPaused), uiPaused)
    /\ planets' = animatePlanets(animatePlanets(planets, isPaused), uiPaused)
    /\ timeUniform' = animateTime(animateTime(time, isPaused), uiPaused)
    /\ renderCount' = renderCount + 2
    /\ running' = running + (IF isPaused THEN 0 ELSE 1)
                          + (IF uiPaused THEN 0 ELSE 1)
    /\ drawn' = planets'
    /\ UNCHANGED << uiPaused, hooked, initialAngle, dist64, clicks, zoomIns, zoomOuts,
                    langVars, stopVars, viewport >>

\* A display refresh after the wrapper is installed:
\* updateInteraction({ isStopped: isPaused }); originalAnimate()
FrameWrapped ==
    /\ hooked
    /\ renderCount < MaxTicks
    /\ frames' = frames + 1
    /\ updateInteraction(uiPaused)
    /\ animate(uiPaused)
    /\ UNCHANGED << uiPaused, hooked, initialAngle, dist64, clicks, zoomIns, zoomOuts,
                    langVars, stopVars, viewport >>

Next ==
    \/ BtnZoomInClick
    \/ BtnZoomOutClick
    \/ BtnStopClick
    \/ InstallHook
    \/ FrameOriginal
    \/ FrameWrapped
    \/ BtnLangClick
    \/ Resize

Spec == Init /\ [][Next]_vars

SpecTable == InitTable /\ [][Next]_vars

\* The zoom code in binary64: the zoom buttons clicked in any order.
NextDouble ==
    \/ BtnZoomInClick64
    \/ BtnZoomOutClick64

SpecDouble == Init /\ [][NextDouble]_vars

(***************************************************************************)
(* Properties.                                                             *)
(***************************************************************************)
\* a step that is one animation frame (one animate call, one render call)
TickStep == renderCount' = renderCount + 1

\* a step that is a click on a zoom button
ZoomClickStep == clicks' = clicks + 1

NonCentral == Index \ {0}

C2_PausedTickKeepsPhase ==
    [][(TickStep /\ isPaused') =>
          \A i \in Index : planets'[i].angle = planets[i].angle]_vars

\* C2 witness: one unpaused tick has been followed by two paused ticks and
\* the angles are those after the first tick.
C2_Witness ==
    /\ isPaused /\ renderCount = 3 /\ time = 1
    /\ \A i \in NonCentral :
          planets[i].angle.k = initialAngle[i].k + Data(i).speed

\* C3: the clock never decreases; a tick executed while not paused
\* increases it by the fixed increment (one unit of 0.01), a tick executed
\* while paused leaves it unchanged.
C3_ClockMonotonic ==
    [][/\ time' >= time
       /\ TickStep => (time' = IF isPaused' THEN time ELSE time + 1)]_vars

\* C3 witness: two unpaused ticks advanced the clock to 0.02 and a paused
\* tick then left it there.
C3_Witness == time = 2 /\ renderCount = 3 /\ isPaused

\* C4 as claimed: in every reachable state, phase - initial phase =
\* angularSpeed * accumulated clock time (in units of 0.0005 rad, with the
\* speed in tenths and the clock in hundredths: 2 * speed * time).
C4_Original ==
    \A i \in NonCentral :
        planets[i].angle.k - initialAngle[i].k = 2 * Data(i).speed * time

\* C4 amended: on every unpaused tick each non-central body's phase
\* increases by exactly angularSpeed * 0.005 while the clock advances by
\* 0.01, so in every reachable state phase - initial phase =
\* angularSpeed * clock / 2.
C4_PhaseHalfClockRate ==
    /\ [][(TickStep /\ ~isPaused') =>
             /\ time' = time + 1
             /\ \A i \in NonCentral :
                   /\ planets'[i].angle.k = planets[i].angle.k + Data(i).speed
                   /\ planets'[i].angle.quarter = planets[i].angle.quarter]_vars
    /\ [](\A i \in NonCentral :
             /\ planets[i].angle.k - initialAngle[i].k = Data(i).speed * time
             /\ planets[i].angle.quarter = initialAngle[i].quarter)

\* C4 witness: three unpaused ticks; Mercury (speed 4.0) has advanced by
\* 3 * 0.02 rad = 120 units while the clock shows 0.03.
C4_Witness ==
    /\ time = 3 /\ renderCount = 3
    /\ planets[1].angle.k - initialAngle[1].k = 120

\* C5: every tick runs as Paused (the clock does not advance) if and only
\* if the page's paused flag is true when the tick starts.
C5_PauseFlagPolledEveryTick ==
    [][TickStep => ((time' = time) <=> uiPaused)]_vars
\* C6 as claimed: a zoom request is only queued, the camera distance is
\* unchanged by the request itself (and changes at the next tick).
C6_Original == [][ZoomClickStep => cameraDist' = cameraDist]_vars

\* C6 amended: a zoom request is applied at once by the click handler: the
\* camera distance becomes max(minDistance, d * 0.8) on a zoom-in click and
\* min(maxDistance, d * 1.25) on a zoom-out click; nothing is queued, and
\* the following ticks leave the camera distance unchanged.
C6_ZoomAppliedAtRequest ==
    [][/\ (ZoomClickStep /\ zoomIns' # zoomIns) =>
             cameraDist' = RMax(minDistance, RMul(cameraDist, << 2, 0, -1 >>))
       /\ (ZoomClickStep /\ zoomOuts' # zoomOuts) =>
             cameraDist' = RMin(maxDistance, RMul(cameraDist, << -2, 0, 1 >>))
       /\ ZoomClickStep => (zoomIns' # zoomIns \/ zoomOuts' # zoomOuts)
       /\ TickStep => cameraDist' = cameraDist]_vars

\* C6 witness: one zoom-out click moved the camera from 100 to 125 and two
\* ticks later it is still at 125.
C6_Witness ==
    /\ clicks = 1 /\ zoomOuts = 1 /\ renderCount = 2
    /\ cameraDist = << 0, 0, 3 >>

\* C7: for every interleaving of zoom clicks and ticks, the number of zoom
\* steps applied to the camera never exceeds the number of zoom requests.
C7_NoZoomAppliedTwice == zoomIns + zoomOuts <= clicks

\* C7 witness: zoom-in and zoom-out clicks interleaved with ticks, every
\* request applied once.
C7_Witness ==
    /\ clicks = 4 /\ zoomIns = 2 /\ zoomOuts = 2
    /\ renderCount >= 2

\* C8: after any sequence of zoomIn, zoomOut and ticks from the initial
\* camera the distance d satisfies minDistance <= d <= maxDistance.
C8_DistanceWithinBounds ==
    /\ RLeq(minDistance, cameraDist)
    /\ RLeq(cameraDist, maxDistance)

\* C8 witness: twelve zoom-in clicks (the eleventh is clamped) and a tick
\* leave the camera at minDistance.
C8_Witness ==
    /\ zoomIns = 12 /\ zoomOuts = 0 /\ renderCount >= 1
    /\ cameraDist = minDistance

\* the distances after 0, 1, ..., n consecutive zoomIn calls from d, as the
\* sequence << d_0, ..., d_n >>
RECURSIVE ZoomInRun(_, _)
ZoomInRun(d, n) ==
    IF n = 0 THEN << d >>
    ELSE LET prev == ZoomInRun(d, n - 1)
         IN  Append(prev, zoomInDist(prev[Len(prev)]))

\* the distances after 0, 1, ..., n consecutive zoomOut calls from d
RECURSIVE ZoomOutRun(_, _)
ZoomOutRun(d, n) ==
    IF n = 0 THEN << d >>
    ELSE LET prev == ZoomOutRun(d, n - 1)
         IN  Append(prev, zoomOutDist(prev[Len(prev)]))

\* C9: from any reachable camera distance finitely many consecutive zoomIn
\* calls reach exactly minDistance and further calls stay there; finitely
\* many consecutive zoomOut calls reach exactly maxDistance and further
\* calls stay there.
C9_ZoomSaturates ==
    /\ LET run == ZoomInRun(cameraDist, ZoomRun + 1)
       IN  \E n \in 0 .. ZoomRun :
              \A m \in n .. (ZoomRun + 1) : run[m + 1] = minDistance
    /\ LET run == ZoomOutRun(cameraDist, ZoomRun + 1)
       IN  \E n \in 0 .. ZoomRun :
              \A m \in n .. (ZoomRun + 1) : run[m + 1] = maxDistance

\* C9 witness: five zoom-out clicks reached maxDistance (the fifth is
\* clamped) and two more left it there.
C9_Witness ==
    /\ zoomOuts = 7 /\ zoomIns = 0
    /\ cameraDist = maxDistance

\* C10: zoomIn sets the distance d to max(minDistance, d * 0.8); from the
\* initial distance 100 three consecutive zoomIn calls give 80, 64, 51.2.
C10_ZoomInStep ==
    /\ [][zoomIns' = zoomIns + 1 =>
             cameraDist' = IF RLeq(minDistance, RMul(cameraDist, << 2, 0, -1 >>))
                           THEN RMul(cameraDist, << 2, 0, -1 >>)
                           ELSE minDistance]_vars
    /\ [](zoomOuts = 0 =>
             /\ zoomIns = 1 => cameraDist = << 4, 0, 1 >>
             /\ zoomIns = 2 => cameraDist = << 6, 0, 0 >>
             /\ zoomIns = 3 => cameraDist = << 8, 0, -1 >>)

\* C10 witness: three zoom-in clicks and no zoom-out: the camera is at 51.2
\* = 2^8 / 5.
C10_Witness ==
    /\ zoomIns = 3 /\ zoomOuts = 0 /\ clicks = 3
    /\ cameraDist = << 8, 0, -1 >>
\* C11: zoomOut sets the distance d to min(maxDistance, d * 1.25).
C11_ZoomOutStep ==
    [][zoomOuts' = zoomOuts + 1 =>
          cameraDist' = IF RLeq(RMul(cameraDist, << -2, 0, 1 >>), maxDistance)
                        THEN RMul(cameraDist, << -2, 0, 1 >>)
                        ELSE maxDistance]_vars

\* C11 witness: from 100 four zoom-out clicks multiplied the distance by
\* 1.25 each (up to 244.140625 = 5^6 / 2^6) and the fifth,
\* which would give 305.18, was clamped to maxDistance.
C11_Witness ==
    /\ zoomOuts = 5 /\ zoomIns = 0 /\ clicks = 5
    /\ cameraDist = maxDistance
\* a step that is a call of Simulation.zoomIn or Simulation.zoomOut
ZoomCallStep == zoomIns' # zoomIns \/ zoomOuts' # zoomOuts

\* C12: zoomIn and zoomOut leave the camera target unchanged (at the origin)
\* and leave the direction of the vector from target to camera unchanged;
\* only its length changes (unless the distance already sits at the bound).
C12_ZoomIsRadialDolly ==
    [][ZoomCallStep =>
          /\ target' = target
          /\ target' = << 0, 0, 0 >>
          /\ cameraDir' = cameraDir
          /\ cameraDir' = << 0, 6000, 8000 >>
          /\ cameraDist' # cameraDist \/ cameraDist \in {minDistance, maxDistance}]_vars

\* C12 witness: after zoom-in and zoom-out clicks the camera is at distance
\* 80 on the ray (0, 0.6, 0.8) it started on, i.e. at (0, 48, 64).
C12_Witness ==
    /\ zoomIns = 2 /\ zoomOuts = 1
    /\ cameraDist = << 4, 0, 1 >>
    /\ cameraDir = << 0, 6000, 8000 >>
    /\ target = << 0, 0, 0 >>
\* the rows held by the registry, in order
LoadedTable == [i \in 1 .. count |-> planets[i - 1].data]

\* a table the specification calls well-formed: every eccentricity in
\* [0,1) and no two bodies with the same name
ValidTable(tbl) ==
    /\ \A i \in 1 .. Len(tbl) : tbl[i].e >= 0 /\ tbl[i].e < 1000
    /\ \A i, j \in 1 .. Len(tbl) : tbl[i].name = tbl[j].name => i = j

C14_PositionOnEllipse ==
    renderCount >= 1 =>
        \A i \in NonCentral :
            LET a == Data(i).r
                e == Data(i).e
                ph == planets[i].angle
                pos == planets[i].position
            IN  /\ pos[2] = 0
                /\ pos[1] = MathCos(ph) * a - a * e * 10
                /\ pos[3] = a * ((MathSin(ph) * SqrtOneMinusSq(e)) \div 10000)
                /\ (ph.quarter = 0 /\ ph.k = 0) =>
                       pos = << a * (1000 - e) * 10, 0, 0 >>
                /\ (ph.quarter = 2 /\ ph.k = 0) =>
                       pos = << 0 - a * (1000 + e) * 10, 0, 0 >>
                /\ (ph.quarter = 1 /\ ph.k = 0 /\ a = 10 /\ e = 206) =>
                       pos = << -20600, 0, 97850 >>

\* C14 witness: a first tick run while paused shows the bodies at their
\* initial phases: Mercury at pi/2 (-2.06, 0, 9.785), Venus at pi
\* (-15.105, 0, 0), Mars at 0 (22.675, 0, 0).
C14_Witness ==
    /\ renderCount >= 1 /\ time = 0
    /\ planets[1].angle = [quarter |-> 1, k |-> 0]
    /\ planets[1].position = << -20600, 0, 97850 >>
    /\ planets[2].position = << -151050, 0, 0 >>
    /\ planets[4].position = << 226750, 0, 0 >>
\* a step that is one call of Simulation.animate
AnimateStep == animateCalls' = animateCalls + 1

\* the label anchor of body i for a mesh position: (0, size + 2.0, 0) above
LabelAnchor(i, pos) == << pos[1], pos[2] + Data(i).size * 1000 + 20000, pos[3] >>

\* C15: every tick, Running or Paused, invokes the render call exactly
\* once, as its last step: what is drawn is the scene after the central
\* body pin and all body and label position updates of that tick; nothing
\* else renders.
C15_RenderOnceAtEndOfTick ==
    /\ [][/\ animateCalls' \in {animateCalls, animateCalls + 1}
          /\ AnimateStep => (renderCount' = renderCount + 1 /\ drawn' = planets')
          /\ ~AnimateStep => (renderCount' = renderCount /\ drawn' = drawn)]_vars
    /\ [](/\ renderCount = animateCalls
          /\ renderCount >= 1 =>
                /\ drawn = planets
                /\ drawn[0].position = << 0, 0, 0 >>
                /\ \A i \in Index :
                      drawn[i].label = LabelAnchor(i, planets[i].position))

\* C15 witness: two running ticks and one paused tick, three render calls,
\* the last one drew the current scene.
C15_Witness ==
    /\ animateCalls = 3 /\ renderCount = 3
    /\ time = 2 /\ isPaused
    /\ drawn = planets

\* C16: for every body, the mesh position and the label position after a
\* paused tick are identical to those after the preceding tick.
C16_PausedRecomputeIdempotent ==
    [][(TickStep /\ isPaused' /\ renderCount >= 1) =>
          \A i \in Index :
              /\ planets'[i].position = planets[i].position
              /\ planets'[i].label = planets[i].label]_vars

\* C16 witness: a running tick followed by two paused ticks; Mercury's
\* label still sits 2.4 above its mesh.
C16_Witness ==
    /\ isPaused /\ renderCount = 3 /\ time = 1
    /\ planets[1].label = << planets[1].position[1], 24000, planets[1].position[3] >>
    /\ planets[1].position # << 0, 0, 0 >>

\* C17: the registry holds the Sun and exactly 7 planets, 8 bodies in
\* total, with index 0 the central body.
C17_EightBodies ==
    /\ count = 8
    /\ planets[0].data.name = "Sun"
    /\ planets[0].data.r = 0

\* C18: each display refresh runs the tick body exactly once, before and
\* after the wrapper is installed, so no phase is advanced more than once
\* per frame.
C18_OneTickPerFrame ==
    /\ [][/\ frames' = frames + 1 => animateCalls' = animateCalls + 1
          /\ frames' = frames => animateCalls' = animateCalls
          /\ \A i \in NonCentral :
                planets'[i].angle.k - planets[i].angle.k \in {0, Data(i).speed}]_vars
    /\ [](animateCalls = frames)

\* C18 witness: three display refreshes with the wrapper installed by the
\* end, three animate calls, two of them running.
C18_Witness ==
    /\ hooked /\ frames = 3 /\ animateCalls = 3
    /\ isPaused /\ time = 2
    /\ planets[1].angle.k = initialAngle[1].k + 80

\* C19: in every tick the clock advances if and only if every non-central
\* body's phase advances; no tick advances the clock or some phases while
\* leaving other non-central phases frozen.
C19_TickAllOrNothing ==
    [][TickStep =>
          \/ /\ time' = time + 1
             /\ \A i \in NonCentral :
                   planets'[i].angle.k = planets[i].angle.k + Data(i).speed
          \/ /\ time' = time
             /\ \A i \in NonCentral : planets'[i].angle = planets[i].angle]_vars

\* C19 witness: pause and resume between ticks: two running ticks and one
\* paused tick, the last tick running, every phase advanced twice.
C19_Witness ==
    /\ hooked /\ ~isPaused /\ renderCount = 3 /\ time = 2
    /\ \A i \in NonCentral :
          planets[i].angle.k = initialAngle[i].k + 2 * Data(i).speed

\* C20: after every tick every body's label position is its mesh position
\* plus (0, size + 2.0, 0); for the central body this is (0, size + 2.0, 0)
\* = (0, 7, 0).
C20_LabelAboveMesh ==
    renderCount >= 1 =>
        /\ \A i \in Index :
              planets[i].label =
                  << planets[i].position[1],
                     planets[i].position[2] + Data(i).size * 1000 + 20000,
                     planets[i].position[3] >>
        /\ planets[0].label = << 0, Data(0).size * 1000 + 20000, 0 >>

\* C20 witness: after a running tick the Sun's label is at (0, 7, 0) and
\* Jupiter's label is 4.5 above Jupiter.
C20_Witness ==
    /\ renderCount >= 1 /\ time >= 1
    /\ planets[0].label = << 0, 70000, 0 >>
    /\ planets[5].label[2] = 45000
    /\ planets[5].label[1] = planets[5].position[1]
    /\ planets[5].position[1] # 0

\* C21: every tick executed while not paused increases each non-central
\* body's rotation about its axis by the fixed step 0.01 (one unit), and
\* every tick executed while paused leaves it unchanged.
C21_SpinOnlyWhenRunning ==
    [][TickStep =>
          \A i \in NonCentral :
              planets'[i].rotationY =
                  IF isPaused' THEN planets[i].rotationY
                               ELSE planets[i].rotationY + 1]_vars

\* C21 witness: two running ticks and then a paused tick: every planet
\* has turned by 0.02 and the paused tick added nothing.
C21_Witness ==
    /\ isPaused /\ renderCount = 3 /\ time = 2
    /\ \A i \in NonCentral : planets[i].rotationY = 2

\* C22: a step that is not a run of animate (a zoom click, a pause click, a
\* language click with its setLanguage, a resize, the installation of the
\* wrapper) leaves the clock and every body's phase and mesh position
\* unchanged; a frame of the wrapper, which calls updateInteraction before
\* animate, changes the clock and the phases by what one tick with the
\* polled flag does and nothing more; and no step at all changes a body's
\* static parameters (name, r, size, speed, e) or the number or order of
\* the bodies.
C22_OnlyFrameLoopMutates ==
    /\ [][~AnimateStep =>
             /\ time' = time
             /\ \A i \in Index :
                   /\ planets'[i].angle = planets[i].angle
                   /\ planets'[i].position = planets[i].position]_vars
    /\ [][(AnimateStep /\ hooked) =>
             /\ time' = time + (IF isPaused' THEN 0 ELSE 1)
             /\ \A i \in NonCentral :
                   planets'[i].angle.k =
                       planets[i].angle.k
                           + (IF isPaused' THEN 0 ELSE Data(i).speed)]_vars
    /\ [][/\ DOMAIN planets' = DOMAIN planets
          /\ \A i \in Index : planets'[i].data = planets[i].data]_vars
    /\ [](/\ Index = 0 .. (Len(bodies) - 1)
          /\ \A i \in Index : Data(i) = bodies[i + 1])

\* C22 witness: after two zoom-in clicks, a zoom-out click, a language
\* click (labels in Chinese), a resize and three frames of which the last
\* two were paused through updateInteraction, the clock shows one tick,
\* every phase is one step from its initial value and the table rows are
\* those of init.
C22_Witness ==
    /\ zoomIns = 2 /\ zoomOuts = 1
    /\ currentLang = "zh" /\ labelMap[3] = "Diqiu"
    /\ viewport # InitialSize
    /\ hooked /\ isPaused /\ renderCount = 3 /\ time = 1
    /\ \A i \in NonCentral :
          /\ planets[i].angle.k = initialAngle[i].k + Data(i).speed
          /\ planets[i].data = bodies[i + 1]

\* C23: in every reachable state, with n the number of ticks that ran
\* while not paused (running), every non-central body's angle is its
\* initial angle plus n * speed * 0.005 and the clock is n * 0.01,
\* whatever paused ticks and pause toggles came in between.
C23_PhaseLinearInRunningTicks ==
    /\ time = running
    /\ \A i \in NonCentral :
          /\ planets[i].angle.k = initialAngle[i].k + running * Data(i).speed
          /\ planets[i].angle.quarter = initialAngle[i].quarter

\* C23 witness: a running tick, a pause click and a paused tick, a resume
\* click and a running tick: n = 2 of 3 ticks, Mercury (speed 4.0) is
\* 2 * 0.02 rad = 80 units past its initial angle.
C23_Witness ==
    /\ hooked /\ ~isPaused /\ ~uiPaused /\ uiClicked /\ ~stopOdd
    /\ renderCount = 3 /\ running = 2
    /\ planets[1].angle.k = initialAngle[1].k + 80

\* the next double above x
doubleSucc(x) ==
    LET m == BigAdd(x.m, << 1 >>)
    IN  IF m = BigTwo53 THEN [m |-> BigTwo52, e |-> x.e + 1] ELSE [m |-> m, e |-> x.e]

\* x and y are the same double or neighbouring doubles
doubleWithinOneUlp(x, y) == x = y \/ doubleSucc(x) = y \/ doubleSucc(y) = x

C25_PauseButtonTracksState ==
    /\ [][stopOdd' # stopOdd => uiPaused' = ~uiPaused]_vars
    /\ [](uiPaused = stopOdd)
    /\ [](uiClicked =>
             btnStopText = IF uiPaused THEN uiTranslations[uiLang].resume
                                       ELSE uiTranslations[uiLang].pause)
    /\ [](currentLang = uiLang /\ uiLang \in {"en", "zh"})

\* C25 witness: the page was paused and then switched to Chinese (or the
\* other way round): the button reads the Chinese 'resume' string, the
\* labels of the simulation are Chinese.
C25_Witness ==
    /\ uiClicked /\ stopOdd /\ uiPaused
    /\ uiLang = "zh" /\ currentLang = "zh"
    /\ btnStopText = "Jixu"
    /\ labelMap[0] = "Taiyang"

====
